---- MODULE Spec2Model ----
(***************************************************************************)
(* Fingerprint-gated Docker image cache of github-opencode-interface:      *)
(* docker_cache.py (collector, hasher, label inspector, decision, build)   *)
(* and its caller Resolver._build_docker_image in resolve.py.              *)
(*                                                                         *)
(* Text is modelled as sequences of code points (ASCII, so the UTF-8       *)
(* encoding of a path is the same sequence), file contents as sequences of *)
(* bytes.  Paths are kept relative to repo_root in POSIX form, which is    *)
(* what relative_to(repo_root).as_posix() yields for the paths the code    *)
(* builds as repo_root / rel.                                              *)
(***************************************************************************)
EXTENDS Integers, Sequences, FiniteSets, TLC

VARIABLES
  fs,             \* the files and directories below repo_root
  image,          \* the image store's entry for 'github-opencode-interface'
  pc,             \* where Resolver._build_docker_image stands
  force_build,    \* Resolver.force_build
  verbose,        \* Resolver.verbose
  files,          \* the list _collect_files returned
  idx,            \* the next file of the list calculate_repo_hash hashes
  hasher,         \* the bytes the hasher has absorbed
  current_hash,   \* should_rebuild_image's current_hash
  existing_hash,  \* should_rebuild_image's existing_hash
  should_rebuild, \* the verdict _build_docker_image received
  content_hash,   \* the fingerprint _build_docker_image received with it
  ret,            \* what _build_docker_image returned: "none", "True", "False"
  exc,            \* the exception that left _build_docker_image, or NoExc
  trace,          \* the phases this cycle went through
  reads,          \* files opened for hashing in this cycle
  inspects,       \* `docker inspect` invocations of this cycle
  builds,         \* `docker build` invocations of this cycle
  seen,           \* the image store entry as the label query of this cycle found it
  inspected,      \* how the `docker inspect` process of this cycle ended
  cycles,         \* cycles started so far
  start_edits,    \* the value of edits when this cycle started
  stamp,          \* the last successful build: its label, its cycle's start_edits
                  \* and the files as `docker build` found them
  edits,          \* changes the environment made to the tracked files so far
  probe,          \* SpecHash, SpecTool: the call made and its result
  race,           \* SpecRace: the cycles of two processes sharing the image store
  cli             \* SpecRun: one invocation of Resolver.run or SuggestIssues.run

vars == <<fs, image, pc, force_build, verbose, files, idx, hasher,
          current_hash, existing_hash, should_rebuild, content_hash, ret, exc,
          trace, reads, inspects, builds, seen, inspected, cycles, start_edits,
          stamp, edits, probe, race, cli>>

cycleVars == <<pc, force_build, verbose, files, idx, hasher,
               current_hash, existing_hash, should_rebuild, content_hash, ret, exc,
               trace, reads, inspects, builds, seen, inspected, cycles, start_edits,
               stamp>>

-----------------------------------------------------------------------------
(* Bounds of the model *)

\* longest file content the environment writes, in bytes
MaxLen == 1

\* environment edits of tracked files during the cycles of Spec
MaxEdits == 1

\* decide+build cycles (invocations of the CLI) in Spec
MaxCycles == 2

-----------------------------------------------------------------------------
(* Text *)

NUL == 0

Slash == <<47>>

\* 'auth.json'
AUTH_JSON == <<97,117,116,104,46,106,115,111,110>>

\* 'docker/Dockerfile'
DOCKERFILE == <<100,111,99,107,101,114,47,68,111,99,107,101,114,102,105,108,101>>

\* 'docker/scripts/lib'
SCRIPTS_LIB == <<100,111,99,107,101,114,47,115,99,114,105,112,116,115,47,108,105,98>>

\* 'docker/scripts/orchestrator.sh'
ORCHESTRATOR_SH == <<100,111,99,107,101,114,47,115,99,114,105,112,116,115,47,111,114,99,104,101,115,116,114,97,116,111,114,46,115,104>>

\* 'docker/prompts'
PROMPTS == <<100,111,99,107,101,114,47,112,114,111,109,112,116,115>>

\* 'docker/opencode'
OPENCODE == <<100,111,99,107,101,114,47,111,112,101,110,99,111,100,101>>

_HASH_TARGETS == <<DOCKERFILE, SCRIPTS_LIB, ORCHESTRATOR_SH, PROMPTS, OPENCODE, AUTH_JSON>>

\* a < b in Python's str ordering (code point by code point, a proper prefix first)
StrLess(a, b) ==
  LET n == IF Len(a) < Len(b) THEN Len(a) ELSE Len(b)
      d == {i \in 1..n : a[i] # b[i]}
  IN  IF d = {} THEN Len(a) < Len(b)
      ELSE LET k == CHOOSE i \in d : \A j \in d : i <= j IN a[k] < b[k]

\* p lies below directory d: d + '/' + a non-empty remainder
IsUnder(p, d) ==
  /\ Len(p) > Len(d) + 1
  /\ SubSeq(p, 1, Len(d) + 1) = d \o Slash

-----------------------------------------------------------------------------
(* The filesystem below repo_root: fs.file maps each regular file to its     *)
(* bytes, fs.dir is the set of InputSet directories that exist.  A directory *)
(* between an InputSet directory and a file below it exists with the file.   *)

\* the InputSet entries the repository keeps as directories
DirTargets == {SCRIPTS_LIB, PROMPTS, OPENCODE}

\* names of files the environment may keep below an InputSet directory:
\* 'a', and 's/a' (a file in a subdirectory)
CHILD_A == <<97>>

CHILD_S_A == <<115,47,97>>

ChildNames == {CHILD_A, CHILD_S_A}

ChildPaths == {d \o Slash \o n : d \in DirTargets, n \in ChildNames}

FilePaths == {DOCKERFILE, ORCHESTRATOR_SH, AUTH_JSON} \cup ChildPaths

ContentBytes == {NUL, 97}

RECURSIVE SeqsUpTo(_, _)
SeqsUpTo(S, n) ==
  IF n = 0 THEN {<<>>}
  ELSE LET shorter == SeqsUpTo(S, n - 1)
       IN  shorter \cup {Append(s, b) : s \in {t \in shorter : Len(t) = n - 1}, b \in S}

\* a content that spells the frame (NUL, path, NUL) of the file sorted next
Confusable == {<<NUL>> \o (OPENCODE \o Slash \o CHILD_S_A) \o <<NUL>>}

Contents == SeqsUpTo(ContentBytes, MaxLen) \cup Confusable

exists(f, target) == target \in DOMAIN f.file \/ target \in f.dir

is_file(f, p) == p \in DOMAIN f.file

\* the subdirectories below d: the prefixes, ending before a '/', of the paths
\* of the files below d
SubDirs(f, d) ==
  UNION {{SubSeq(p, 1, j) : j \in {k \in (Len(d) + 2)..(Len(p) - 1) : p[k + 1] = 47}} :
         p \in {q \in DOMAIN f.file : IsUnder(q, d)}}

\* what target.rglob('*') yields for directory d, as a set: every file and
\* every subdirectory below it
Entries(f, d) == {p \in DOMAIN f.file : IsUnder(p, d)} \cup SubDirs(f, d)

Perms(S) ==
  {s \in [1..Cardinality(S) -> S] : \A i, j \in 1..Cardinality(S) : s[i] = s[j] => i = j}

\* the orders in which the filesystem may report the entries of each
\* existing InputSet directory during one traversal
Listings(f) ==
  LET orders == [d \in f.dir |-> Perms(Entries(f, d))]
  IN  {l \in [f.dir -> UNION {orders[d] : d \in f.dir}] : \A d \in f.dir : l[d] \in orders[d]}

-----------------------------------------------------------------------------
(* Results of calls: a returned value or a raised exception *)

NoExc == [type |-> "", msg |-> "", path |-> <<>>]

Return(v) == [ok |-> TRUE, val |-> v, exc |-> NoExc]

Raise(e) == [ok |-> FALSE, val |-> <<>>, exc |-> e]

\* FileNotFoundError(f'Missing hash input: {target}')
MissingHashInput(target) ==
  [type |-> "FileNotFoundError", msg |-> "Missing hash input", path |-> target]

\* what path.open('rb') raises for a file that is gone
OpenFailed(path) ==
  [type |-> "FileNotFoundError", msg |-> "No such file or directory", path |-> path]

\* what path.open('rb') raises for a file the process may not read
PermissionDenied(path) ==
  [type |-> "PermissionError", msg |-> "Permission denied", path |-> path]

-----------------------------------------------------------------------------
(* Fingerprint collector and content hasher *)

\* sorted() left out: the list stays in the order it was built in
sorted_off(s) == s

\* sorted(seq, key=relative POSIX path): a stable insertion sort
RECURSIVE sorted(_)
sorted(s) ==
  IF s = <<>> THEN <<>>
  ELSE LET x == s[Len(s)]
           t == sorted(SubSeq(s, 1, Len(s) - 1))
           k == Cardinality({i \in 1..Len(t) : ~StrLess(x, t[i])})
       IN  SubSeq(t, 1, k) \o <<x>> \o SubSeq(t, k + 1, Len(t))

\* the loop treating every missing entry like the optional one
RECURSIVE collect_from_lenient(_, _, _, _)
collect_from_lenient(f, rglob, i, acc) ==
  IF i > Len(_HASH_TARGETS) THEN Return(acc)
  ELSE LET target == _HASH_TARGETS[i]
       IN  IF ~exists(f, target)
           THEN collect_from_lenient(f, rglob, i + 1, acc)
           ELSE IF is_file(f, target)
                THEN collect_from_lenient(f, rglob, i + 1, Append(acc, target))
                ELSE collect_from_lenient(f, rglob, i + 1,
                       acc \o sorted(SelectSeq(rglob[target], LAMBDA p : is_file(f, p))))

\* the loop with no optional entry: a missing 'auth.json' raises as well
RECURSIVE collect_from_strict(_, _, _, _)
collect_from_strict(f, rglob, i, acc) ==
  IF i > Len(_HASH_TARGETS) THEN Return(acc)
  ELSE LET target == _HASH_TARGETS[i]
       IN  IF ~exists(f, target)
           THEN Raise(MissingHashInput(target))
           ELSE IF is_file(f, target)
                THEN collect_from_strict(f, rglob, i + 1, Append(acc, target))
                ELSE collect_from_strict(f, rglob, i + 1,
                       acc \o sorted(SelectSeq(rglob[target], LAMBDA p : is_file(f, p))))

\* the loop over _HASH_TARGETS from entry i on, acc being the list so far
RECURSIVE collect_from(_, _, _, _)
collect_from(f, rglob, i, acc) ==
  IF i > Len(_HASH_TARGETS) THEN Return(acc)
  ELSE LET rel == _HASH_TARGETS[i]
           target == rel
       IN  IF ~exists(f, target)
           THEN IF rel = AUTH_JSON
                THEN collect_from(f, rglob, i + 1, acc)
                ELSE Raise(MissingHashInput(target))
           ELSE IF is_file(f, target)
                THEN collect_from(f, rglob, i + 1, Append(acc, target))
                ELSE collect_from(f, rglob, i + 1,
                       acc \o sorted(SelectSeq(rglob[target], LAMBDA p : is_file(f, p))))

\* the list returned as the loop built it, without the final sorted()
_collect_files_unsorted(f, rglob) == collect_from(f, rglob, 1, <<>>)

_collect_files(f, rglob) ==
  LET r == collect_from(f, rglob, 1, <<>>)
  IN  IF r.ok THEN Return(sorted(r.val)) ELSE r

\* the file's bytes left out of the digest
_hash_file_no_content(h, f, path) ==
  IF path \notin DOMAIN f.file THEN Raise(OpenFailed(path))
  ELSE Return(h \o path \o <<NUL>> \o <<NUL>>)

\* the file's path left out of the digest
_hash_file_no_path(h, f, path) ==
  IF path \notin DOMAIN f.file THEN Raise(OpenFailed(path))
  ELSE Return(h \o <<NUL>> \o f.file[path] \o <<NUL>>)

\* hasher.update(rel_path); update(b'\0'); update(every chunk); update(b'\0'):
\* the hasher is the sequence of bytes it has absorbed
_hash_file(h, f, path) ==
  IF path \notin DOMAIN f.file THEN Raise(OpenFailed(path))
  ELSE Return(h \o path \o <<NUL>> \o f.file[path] \o <<NUL>>)

\* '0123456789abcdef'
HexDigits == <<48,49,50,51,52,53,54,55,56,57,97,98,99,100,101,102>>

\* hexdigest(): lowercase hexadecimal text of the digest.  SHA-256 is taken as
\* collision-free: the digest of the absorbed bytes determines them, so the
\* model renders the absorbed bytes themselves, two hex digits a byte
hexdigest(h) ==
  [k \in 1..(2 * Len(h)) |->
     IF k % 2 = 1 THEN HexDigits[(h[(k + 1) \div 2] \div 16) + 1]
     ELSE HexDigits[(h[k \div 2] % 16) + 1]]

RECURSIVE hash_from(_, _, _, _)
hash_from(h, f, list, i) ==
  IF i > Len(list) THEN Return(hexdigest(h))
  ELSE LET r == _hash_file(h, f, list[i])
       IN  IF r.ok THEN hash_from(r.val, f, list, i + 1) ELSE r

calculate_repo_hash(f, rglob) ==
  LET c == _collect_files(f, rglob)
  IN  IF c.ok THEN hash_from(<<>>, f, c.val, 1) ELSE c

-----------------------------------------------------------------------------
(* Changes the environment makes to the tracked files *)

\* one byte of an existing file replaced by another value
ChangeByte(f, p, i, b) ==
  [f EXCEPT !.file = [f.file EXCEPT ![p] = [f.file[p] EXCEPT ![i] = b]]]

RemoveFile(f, p) ==
  [f EXCEPT !.file = [q \in DOMAIN f.file \ {p} |-> f.file[q]]]

\* a file created with content c (its InputSet directory exists)
AddFile(f, p, c) ==
  [f EXCEPT !.file = [q \in DOMAIN f.file \cup {p} |-> IF q = p THEN c ELSE f.file[q]]]

\* rename(p, q): q takes p's content, p is gone
Rename(f, p, q) == RemoveFile(AddFile(f, q, f.file[p]), p)

\* an InputSet directory removed with everything below it
RemoveDir(f, d) ==
  [file |-> [q \in {r \in DOMAIN f.file : ~IsUnder(r, d)} |-> f.file[q]],
   dir |-> f.dir \ {d}]

\* the directory a candidate file needs: the InputSet directory above it, if any
ParentOK(f, p) == \A d \in DirTargets : IsUnder(p, d) => d \in f.dir

-----------------------------------------------------------------------------
(* The build tool: a completed `docker` process is found (the binary is on  *)
(* PATH; otherwise subprocess.run raises FileNotFoundError), returncode,     *)
(* stdout and stderr                                                         *)

\* 'Cannot connect to the Docker daemon'
DAEMON_MARKER == <<67,97,110,110,111,116,32,99,111,110,110,101,99,116,32,116,111,32,116,104,101,32,68,111,99,107,101,114,32,100,97,101,109,111,110>>

\* '<no value>'
NO_VALUE == <<60,110,111,32,118,97,108,117,101,62>>

\* 'null'
NULL_TEXT == <<110,117,108,108>>

\* Optional[str]
None == [some |-> FALSE, str |-> <<>>]

Some(v) == [some |-> TRUE, str |-> v]

DockerNotFound ==
  [type |-> "RuntimeError",
   msg |-> "Docker executable not found. Is Docker installed and on PATH?",
   path |-> <<>>]

DaemonUnreachable ==
  [type |-> "RuntimeError",
   msg |-> "Cannot connect to the Docker daemon. Is it running?",
   path |-> <<>>]

\* the characters str.strip() removes
IsSpace(c) == c \in {9, 10, 11, 12, 13, 28, 29, 30, 31, 32, 133, 160}

\* str.strip()
strip(s) ==
  LET keep == {i \in 1..Len(s) : ~IsSpace(s[i])}
  IN  IF keep = {} THEN <<>>
      ELSE SubSeq(s, CHOOSE i \in keep : \A j \in keep : i <= j,
                     CHOOSE i \in keep : \A j \in keep : j <= i)

\* m in s, for text
Contains(s, m) == \E i \in 1..(Len(s) - Len(m) + 1) : SubSeq(s, i, i + Len(m) - 1) = m

\* the daemon-unreachable check left out: a failed query is a cache miss
get_image_hash_label_silent(result) ==
  IF ~result.found THEN Raise(DockerNotFound)
  ELSE IF result.returncode # 0 THEN Return(None)
  ELSE LET value == strip(result.stdout)
       IN  IF value = <<>> \/ value \in {NO_VALUE, NULL_TEXT}
           THEN Return(None)
           ELSE Return(Some(value))

\* only the sentinel '<no value>' recognised
get_image_hash_label_one_sentinel(result) ==
  IF ~result.found THEN Raise(DockerNotFound)
  ELSE IF result.stderr # <<>> /\ Contains(result.stderr, DAEMON_MARKER)
  THEN Raise(DaemonUnreachable)
  ELSE IF result.returncode # 0 THEN Return(None)
  ELSE LET value == strip(result.stdout)
       IN  IF value = <<>> \/ value = NO_VALUE
           THEN Return(None)
           ELSE Return(Some(value))

get_image_hash_label(result) ==
  IF ~result.found THEN Raise(DockerNotFound)
  ELSE IF result.stderr # <<>> /\ Contains(result.stderr, DAEMON_MARKER)
  THEN Raise(DaemonUnreachable)
  ELSE IF result.returncode # 0 THEN Return(None)
  ELSE LET value == strip(result.stdout)
       IN  IF value = <<>> \/ value \in {NO_VALUE, NULL_TEXT}
           THEN Return(None)
           ELSE Return(Some(value))

\* the process as subprocess.run hands it back: with stdout=None the tool's
\* output goes to the console and result.stdout is None
Passthrough(result) == [result EXCEPT !.stdout = <<>>]

\* stderr not captured in verbose mode, so the marker is never seen there
build_docker_image_verbose_blind(run, verbose_flag) ==
  IF ~run.found THEN Raise(DockerNotFound)
  ELSE IF ~verbose_flag /\ run.stderr # <<>> /\ Contains(run.stderr, DAEMON_MARKER)
  THEN Raise(DaemonUnreachable)
  ELSE Return(run.returncode = 0)

build_docker_image(run, verbose_flag) ==
  IF ~run.found THEN Raise(DockerNotFound)
  ELSE LET result == IF verbose_flag THEN Passthrough(run) ELSE run
       IN  IF result.stderr # <<>> /\ Contains(result.stderr, DAEMON_MARKER)
           THEN Raise(DaemonUnreachable)
           ELSE Return(result.returncode = 0)

\* the comparison of the two fingerprints inverted
should_rebuild_image_inverted(force, hash, existing) ==
  IF force THEN <<TRUE, hash>>
  ELSE IF existing = None THEN <<TRUE, hash>>
  ELSE <<existing.str = hash, hash>>

should_rebuild_image(force, hash, existing) ==
  IF force THEN <<TRUE, hash>>
  ELSE IF existing = None THEN <<TRUE, hash>>
  ELSE <<existing.str # hash, hash>>

-----------------------------------------------------------------------------
(* The Docker image store entry of 'github-opencode-interface': absent, or   *)
(* the value of its HASH_LABEL label ("" when the image carries none)        *)

NoImage == [present |-> FALSE, label |-> <<>>]

-----------------------------------------------------------------------------
(* SpecHash: the collector and the hasher as functions of the tracked files. *)
(* A fingerprint is taken (HashFirst), possibly taken again under another    *)
(* traversal order (HashSecond); then one single change is applied to the    *)
(* tracked files and the fingerprint is taken again, once or twice.          *)

NoProbe == [op |-> "none"]

\* the two processes of SpecRace
Procs == {1, 2}

\* a process that has not entered Resolver._build_docker_image; runs counts
\* its cycles, rebuilt tells whether a non-forced cycle of it has built
ProcIdle ==
  [pc |-> "Idle", force_build |-> FALSE, current_hash |-> <<>>, seen |-> NoImage,
   after |-> FALSE, should_rebuild |-> FALSE, content_hash |-> <<>>, ret |-> "none",
   exc |-> NoExc, builds |-> 0, runs |-> 0, rebuilt |-> FALSE]

RaceIdle == [proc |-> [p \in Procs |-> ProcIdle], built |-> FALSE]

\* no invocation of run
RunIdle == [pc |-> "none"]

NoStamp ==
  [built |-> FALSE, label |-> <<>>, edits |-> 0, done |-> 0,
   consumed |-> [file |-> <<>>, dir |-> {}]]

NoRun == [found |-> TRUE, returncode |-> 0, stdout |-> <<>>, stderr |-> <<>>]

CycleIdle ==
  /\ pc = "Idle"
  /\ force_build = FALSE
  /\ verbose = FALSE
  /\ files = <<>>
  /\ idx = 0
  /\ hasher = <<>>
  /\ current_hash = <<>>
  /\ existing_hash = None
  /\ should_rebuild = FALSE
  /\ content_hash = <<>>
  /\ ret = "none"
  /\ exc = NoExc
  /\ trace = <<>>
  /\ reads = 0
  /\ inspects = 0
  /\ builds = 0
  /\ seen = NoImage
  /\ inspected = NoRun
  /\ cycles = 0
  /\ start_edits = 0
  /\ stamp = NoStamp

\* the tracked files of a checkout: both required files, every InputSet
\* directory, and at most one more file of any content
InitialFS ==
  {[file |-> g, dir |-> DirTargets] :
     g \in UNION {{h \in [({DOCKERFILE, ORCHESTRATOR_SH} \cup extra) -> Contents] :
                      /\ h[DOCKERFILE] = <<97>>
                      /\ h[ORCHESTRATOR_SH] = <<>>} :
                    extra \in {{}} \cup {{p} : p \in FilePaths \ {DOCKERFILE, ORCHESTRATOR_SH}}}}

HashProbe(op, change, before, first, second, collected) ==
  [op |-> op, change |-> change, before |-> before, first |-> first,
   second |-> second, collected |-> collected]

InitHash ==
  /\ fs \in InitialFS
  /\ image = NoImage
  /\ edits = 0
  /\ CycleIdle
  /\ race = RaceIdle
  /\ cli = RunIdle
  /\ probe = HashProbe("init", "none", Return(<<>>), Return(<<>>), Return(<<>>), Return(<<>>))

\* fingerprint(root): _collect_files and calculate_repo_hash under one
\* traversal order
HashFirst ==
  /\ probe.op \in {"init", "changed"}
  /\ \E l \in Listings(fs) :
       probe' = [probe EXCEPT !.op = "first",
                              !.first = calculate_repo_hash(fs, l),
                              !.collected = _collect_files(fs, l)]
  /\ UNCHANGED <<fs, image, edits, cycleVars, race, cli>>

\* fingerprint(root) again, the files unchanged, under any traversal order
HashSecond ==
  /\ probe.op = "first"
  /\ \E l \in Listings(fs) :
       probe' = [probe EXCEPT !.op = "second",
                              !.second = calculate_repo_hash(fs, l)]
  /\ UNCHANGED <<fs, image, edits, cycleVars, race, cli>>

Changed(kind, f) ==
  /\ probe.op \in {"first", "second"}
  /\ probe.change = "none"
  /\ fs' = f
  /\ probe' = [probe EXCEPT !.op = "changed", !.change = kind,
                            !.before = probe.first]
  /\ UNCHANGED <<image, edits, cycleVars, race, cli>>

HashChangeByte ==
  \E p \in DOMAIN fs.file : \E i \in 1..Len(fs.file[p]) :
    \E b \in ContentBytes \ {fs.file[p][i]} :
      Changed("byte", ChangeByte(fs, p, i, b))

HashRename ==
  \E p \in DOMAIN fs.file : \E q \in FilePaths \ DOMAIN fs.file :
    /\ ParentOK(fs, q)
    /\ Changed("rename", Rename(fs, p, q))

HashAddFile ==
  \E p \in ChildPaths \ DOMAIN fs.file : \E c \in Contents :
    /\ ParentOK(fs, p)
    /\ Changed("add", AddFile(fs, p, c))

HashRemoveFile ==
  \E p \in DOMAIN fs.file : Changed("remove", RemoveFile(fs, p))

\* the optional 'auth.json' is created, with any content
HashCreateAuth ==
  /\ AUTH_JSON \notin DOMAIN fs.file
  /\ \E c \in Contents : Changed("auth", AddFile(fs, AUTH_JSON, c))

NextHash ==
  \/ HashFirst
  \/ HashSecond
  \/ HashChangeByte
  \/ HashRename
  \/ HashAddFile
  \/ HashRemoveFile
  \/ HashCreateAuth

SpecHash == InitHash /\ [][NextHash]_vars

-----------------------------------------------------------------------------
(* SpecTool: the label inspector and the build executor as functions of how  *)
(* the docker process ended                                                  *)

\* longest run of whitespace the tool prints around a value
MaxPad == 1

Pads == SeqsUpTo({10, 32}, MaxPad)

\* '', '<no value>', 'null', 'nul', 'ab', 'a b' and a fingerprint
StdoutCores ==
  {<<>>, NO_VALUE, NULL_TEXT, <<110,117,108>>, <<97,98>>, <<97,32,98>>,
   hexdigest(<<97, NUL, NUL>>)}

Stdouts == {a \o c \o b : a \in Pads, b \in Pads, c \in StdoutCores}

\* '', the marker, the marker inside docker's message, the marker cut short,
\* and 'No such image'
Stderrs ==
  {<<>>, DAEMON_MARKER,
   <<69,82,82,79,82,58,32>> \o DAEMON_MARKER \o <<32,97,116,32,117,110,105,120,58,47,47,47,118,97,114,47,114,117,110,47,100,111,99,107,101,114,46,115,111,99,107>>,
   SubSeq(DAEMON_MARKER, 1, Len(DAEMON_MARKER) - 1),
   <<78,111,32,115,117,99,104,32,105,109,97,103,101>>}

ReturnCodes == {0, 1}

Runs == [found : BOOLEAN, returncode : ReturnCodes, stdout : Stdouts, stderr : Stderrs]

InitTool ==
  /\ fs \in {f \in InitialFS : DOMAIN f.file = {DOCKERFILE, ORCHESTRATOR_SH}}
  /\ image = NoImage
  /\ edits = 0
  /\ CycleIdle
  /\ race = RaceIdle
  /\ cli = RunIdle
  /\ probe = NoProbe

ToolInspect ==
  /\ probe.op = "none"
  /\ \E run \in Runs :
       probe' = [op |-> "inspect", run |-> run, verbose |-> FALSE,
                 out |-> get_image_hash_label(run)]
  /\ UNCHANGED <<fs, image, edits, cycleVars, race, cli>>

ToolBuild ==
  /\ probe.op = "none"
  /\ \E run \in Runs : \E v \in BOOLEAN :
       probe' = [op |-> "build", run |-> run, verbose |-> v,
                 out |-> build_docker_image(run, v)]
  /\ UNCHANGED <<fs, image, edits, cycleVars, race, cli>>

NextTool ==
  \/ ToolInspect
  \/ ToolBuild

SpecTool == InitTool /\ [][NextTool]_vars

-----------------------------------------------------------------------------
(* Spec: decide+build cycles of Resolver._build_docker_image, one after the  *)
(* other, against a filesystem and a Docker installation that change under   *)
(* it                                                                        *)

\* 'docker/opencode/a'
OPENCODE_A == OPENCODE \o Slash \o CHILD_A

\* the tracked files the environment edits while cycles run
EditPaths == {DOCKERFILE, AUTH_JSON, OPENCODE_A}

\* what it writes: nothing, or one byte
EditContents == {<<>>, <<97>>}

\* `docker inspect --format={{index .Config.Labels "<HASH_LABEL>"}} <image>`:
\* the binary is missing, or the daemon is unreachable, or the image is absent,
\* or the label's value (empty when the image has none) is printed on a line
InspectRuns(img) ==
  {[found |-> FALSE, returncode |-> 1, stdout |-> <<>>, stderr |-> <<>>],
   [found |-> TRUE, returncode |-> 1, stdout |-> <<>>,
    stderr |-> <<69,82,82,79,82,58,32>> \o DAEMON_MARKER],
   IF img.present
   THEN [found |-> TRUE, returncode |-> 0, stdout |-> img.label \o <<10>>, stderr |-> <<>>]
   ELSE [found |-> TRUE, returncode |-> 1, stdout |-> <<10>>,
         stderr |-> <<78,111,32,115,117,99,104,32,105,109,97,103,101>>]}

\* `docker build --label <HASH_LABEL>=<content_hash> -t <image> -f <dockerfile> .`:
\* the binary is missing, or the daemon is unreachable, or the build fails,
\* or it succeeds
BuildRuns ==
  {[found |-> FALSE, returncode |-> 1, stdout |-> <<>>, stderr |-> <<>>],
   [found |-> TRUE, returncode |-> 1, stdout |-> <<>>,
    stderr |-> <<69,82,82,79,82,58,32>> \o DAEMON_MARKER],
   [found |-> TRUE, returncode |-> 1, stdout |-> <<>>,
    stderr |-> <<98,117,105,108,100,32,102,97,105,108,101,100>>],
   [found |-> TRUE, returncode |-> 0, stdout |-> <<>>, stderr |-> <<>>]}

\* a build that tags the image whether it succeeds or not
Built_on_failure(img, run, hash) ==
  IF run.found
  THEN [present |-> TRUE, label |-> hash]
  ELSE img

\* a successful build tagging the image without replacing its label
Built_keep_label(img, run, hash) ==
  IF run.found /\ run.returncode = 0
  THEN [present |-> TRUE, label |-> img.label]
  ELSE img

\* what a `docker build` that ended as `run` leaves in the image store: a
\* successful build tags the new image, which carries the label it was given
Built(img, run, hash) ==
  IF run.found /\ run.returncode = 0
  THEN [present |-> TRUE, label |-> hash]
  ELSE img

Init ==
  /\ fs \in {f \in InitialFS : DOMAIN f.file = {DOCKERFILE, ORCHESTRATOR_SH}}
  /\ image = NoImage
  /\ edits = 0
  /\ CycleIdle
  /\ race = RaceIdle
  /\ cli = RunIdle
  /\ probe = NoProbe

\* an exception leaves _build_docker_image (nothing in resolve.py catches it)
Raised(e) ==
  /\ pc' = "Raised"
  /\ exc' = e
  /\ trace' = Append(trace, "Fatal")

\* force_build tested before the fingerprint is computed
Start_force_first ==
  /\ pc \in {"Idle", "Done", "Raised"}
  /\ cycles < MaxCycles
  /\ cycles' = cycles + 1
  /\ \E force \in BOOLEAN :
       /\ force_build' = force
       /\ pc' = IF force THEN "decided" ELSE "collect"
       /\ should_rebuild' = force
  /\ \E v \in BOOLEAN : verbose' = v
  /\ trace' = <<"Idle", "Fingerprinting">>
  /\ files' = <<>>
  /\ idx' = 0
  /\ hasher' = <<>>
  /\ current_hash' = <<>>
  /\ existing_hash' = None
  /\ content_hash' = <<>>
  /\ ret' = "none"
  /\ exc' = NoExc
  /\ reads' = 0
  /\ inspects' = 0
  /\ builds' = 0
  /\ seen' = NoImage
  /\ inspected' = NoRun
  /\ start_edits' = edits
  /\ UNCHANGED <<fs, image, edits, stamp, probe, race, cli>>

\* Resolver._build_docker_image is entered and calls should_rebuild_image
Start ==
  /\ pc \in {"Idle", "Done", "Raised"}
  /\ cycles < MaxCycles
  /\ cycles' = cycles + 1
  /\ \E force \in BOOLEAN : force_build' = force
  /\ \E v \in BOOLEAN : verbose' = v
  /\ pc' = "collect"
  /\ trace' = <<"Idle", "Fingerprinting">>
  /\ files' = <<>>
  /\ idx' = 0
  /\ hasher' = <<>>
  /\ current_hash' = <<>>
  /\ existing_hash' = None
  /\ should_rebuild' = FALSE
  /\ content_hash' = <<>>
  /\ ret' = "none"
  /\ exc' = NoExc
  /\ reads' = 0
  /\ inspects' = 0
  /\ builds' = 0
  /\ seen' = NoImage
  /\ inspected' = NoRun
  /\ start_edits' = edits
  /\ UNCHANGED <<fs, image, edits, stamp, probe, race, cli>>

\* calculate_repo_hash: hashlib.sha256() and the call of _collect_files
Collect ==
  /\ pc = "collect"
  /\ \E l \in Listings(fs) :
       LET r == _collect_files(fs, l)
       IN  IF r.ok
           THEN /\ files' = r.val
                /\ idx' = 1
                /\ pc' = "hash"
                /\ UNCHANGED <<exc, trace, cli>>
           ELSE /\ Raised(r.exc)
                /\ UNCHANGED <<files, idx>>
  /\ UNCHANGED <<fs, image, force_build, verbose, hasher, current_hash, existing_hash,
                 should_rebuild, content_hash, ret, reads, inspects, builds, seen,
                 inspected, cycles, start_edits, stamp, edits, probe, race, cli>>

\* calculate_repo_hash: one turn of the loop, _hash_file on the next file;
\* the open may be refused although the file is there
HashFile ==
  /\ pc = "hash"
  /\ idx <= Len(files)
  /\ reads' = reads + 1
  /\ \E denied \in BOOLEAN :
       LET r == IF denied /\ files[idx] \in DOMAIN fs.file
                THEN Raise(PermissionDenied(files[idx]))
                ELSE _hash_file(hasher, fs, files[idx])
       IN  IF r.ok
           THEN /\ hasher' = r.val
                /\ idx' = idx + 1
                /\ UNCHANGED <<pc, exc, trace, cli>>
           ELSE /\ Raised(r.exc)
                /\ UNCHANGED <<hasher, idx>>
  /\ UNCHANGED <<fs, image, force_build, verbose, files, current_hash, existing_hash,
                 should_rebuild, content_hash, ret, inspects, builds, seen, inspected,
                 cycles, start_edits, stamp, edits, probe, race, cli>>

\* calculate_repo_hash returns hexdigest(); with force_build set
\* should_rebuild_image returns at once
HashDone ==
  /\ pc = "hash"
  /\ idx > Len(files)
  /\ current_hash' = hexdigest(hasher)
  /\ IF force_build
     THEN LET verdict == should_rebuild_image(TRUE, hexdigest(hasher), None)
          IN  /\ should_rebuild' = verdict[1]
              /\ content_hash' = verdict[2]
              /\ pc' = "decided"
     ELSE /\ pc' = "inspect"
          /\ UNCHANGED <<should_rebuild, content_hash>>
  /\ UNCHANGED <<fs, image, force_build, verbose, files, idx, hasher, existing_hash,
                 ret, exc, trace, reads, inspects, builds, seen, inspected, cycles,
                 start_edits, stamp, edits, probe, race, cli>>

\* should_rebuild_image: get_image_hash_label and the comparison
Inspect ==
  /\ pc = "inspect"
  /\ inspects' = inspects + 1
  /\ seen' = image
  /\ \E run \in InspectRuns(image) :
       LET r == get_image_hash_label(run)
           verdict == should_rebuild_image(force_build, current_hash, r.val)
       IN  /\ inspected' = run
           /\ IF r.ok
              THEN /\ existing_hash' = r.val
                   /\ should_rebuild' = verdict[1]
                   /\ content_hash' = verdict[2]
                   /\ pc' = "decided"
                   /\ UNCHANGED <<exc, trace, cli>>
              ELSE /\ Raised(r.exc)
                   /\ UNCHANGED <<existing_hash, should_rebuild, content_hash>>
  /\ UNCHANGED <<fs, image, force_build, verbose, files, idx, hasher, current_hash,
                 ret, reads, builds, cycles, start_edits, stamp, edits, probe, race, cli>>

\* _build_docker_image: `if not should_rebuild: return True`
CacheHit ==
  /\ pc = "decided"
  /\ ~should_rebuild
  /\ ret' = "True"
  /\ pc' = "Done"
  /\ trace' = trace \o <<"CacheHit", "Idle(success)">>
  /\ UNCHANGED <<fs, image, force_build, verbose, files, idx, hasher, current_hash,
                 existing_hash, should_rebuild, content_hash, exc, reads, inspects,
                 builds, seen, inspected, cycles, start_edits, stamp, edits, probe, race, cli>>

\* a failed build tried again instead of returned
Build_retry ==
  /\ pc = "decided"
  /\ should_rebuild
  /\ builds' = builds + 1
  /\ \E run \in BuildRuns :
       LET r == build_docker_image(run, verbose)
       IN  /\ image' = Built(image, run, content_hash)
           /\ stamp' = IF run.found /\ run.returncode = 0
                       THEN [built |-> TRUE, label |-> content_hash,
                             edits |-> start_edits, done |-> edits,
                             consumed |-> fs]
                       ELSE stamp
           /\ IF r.ok
              THEN /\ ret' = IF r.val THEN "True" ELSE "none"
                   /\ pc' = IF r.val THEN "Done" ELSE "decided"
                   /\ trace' = trace \o <<"CacheMiss", "Building">> \o
                                 (IF r.val THEN <<"Idle(success)">> ELSE <<>>)
                   /\ UNCHANGED exc
              ELSE /\ pc' = "Raised"
                   /\ exc' = r.exc
                   /\ trace' = trace \o <<"CacheMiss", "Building", "Fatal">>
                   /\ UNCHANGED ret
  /\ UNCHANGED <<fs, force_build, verbose, files, idx, hasher, current_hash,
                 existing_hash, should_rebuild, content_hash, reads, inspects, seen,
                 inspected, cycles, start_edits, edits, probe, race, cli>>

\* _build_docker_image: `return docker_cache.build_docker_image(...)`
Build ==
  /\ pc = "decided"
  /\ should_rebuild
  /\ builds' = builds + 1
  /\ \E run \in BuildRuns :
       LET r == build_docker_image(run, verbose)
       IN  /\ image' = Built(image, run, content_hash)
           /\ stamp' = IF run.found /\ run.returncode = 0
                       THEN [built |-> TRUE, label |-> content_hash,
                             edits |-> start_edits, done |-> edits,
                             consumed |-> fs]
                       ELSE stamp
           /\ IF r.ok
              THEN /\ ret' = IF r.val THEN "True" ELSE "False"
                   /\ pc' = "Done"
                   /\ trace' = trace \o <<"CacheMiss", "Building",
                                          IF r.val THEN "Idle(success)" ELSE "Idle(failure)">>
                   /\ UNCHANGED exc
              ELSE /\ pc' = "Raised"
                   /\ exc' = r.exc
                   /\ trace' = trace \o <<"CacheMiss", "Building", "Fatal">>
                   /\ UNCHANGED ret
  /\ UNCHANGED <<fs, force_build, verbose, files, idx, hasher, current_hash,
                 existing_hash, should_rebuild, content_hash, reads, inspects, seen,
                 inspected, cycles, start_edits, edits, probe, race, cli>>

Edited(f) ==
  /\ edits < MaxEdits
  /\ edits' = edits + 1
  /\ fs' = f
  /\ UNCHANGED <<image, cycleVars, probe, race, cli>>

\* the environment creates a tracked file or replaces its content
EnvWriteFile ==
  \E p \in EditPaths : \E c \in EditContents :
    /\ p \in DOMAIN fs.file => fs.file[p] # c
    /\ ParentOK(fs, p)
    /\ Edited(AddFile(fs, p, c))

\* the environment removes a tracked file
EnvRemoveFile ==
  \E p \in EditPaths \cap DOMAIN fs.file : Edited(RemoveFile(fs, p))

\* the environment removes an InputSet directory
EnvRemoveDir ==
  \E d \in {OPENCODE} \cap fs.dir : Edited(RemoveDir(fs, d))

Next ==
  \/ Start
  \/ Collect
  \/ HashFile
  \/ HashDone
  \/ Inspect
  \/ CacheHit
  \/ Build
  \/ EnvWriteFile
  \/ EnvRemoveFile
  \/ EnvRemoveDir

Spec == Init /\ [][Next]_vars

-----------------------------------------------------------------------------
(* SpecRace: two processes, each running Resolver._build_docker_image, with  *)
(* nothing coordinating them, against one image store and tracked files that *)
(* do not change.  A process's steps are its calls: calculate_repo_hash,     *)
(* get_image_hash_label, build_docker_image.                                 *)

\* cycles each process runs
MaxRuns == 2

\* 'old': a label left by a build of other inputs
STALE_LABEL == <<111,108,100>>

InitRace ==
  /\ fs \in {f \in InitialFS : DOMAIN f.file = {DOCKERFILE, ORCHESTRATOR_SH}}
  /\ image \in {NoImage, [present |-> TRUE, label |-> <<>>],
                [present |-> TRUE, label |-> STALE_LABEL]}
  /\ edits = 0
  /\ CycleIdle
  /\ race = RaceIdle
  /\ cli = RunIdle
  /\ probe = NoProbe

ProcStep(p, rec) == race' = [race EXCEPT !.proc[p] = rec]

\* process p enters _build_docker_image
RaceStart(p) ==
  /\ race.proc[p].pc \in {"Idle", "Done", "Raised"}
  /\ race.proc[p].runs < MaxRuns
  /\ \E force \in BOOLEAN :
       ProcStep(p, [ProcIdle EXCEPT !.pc = "fingerprint", !.force_build = force,
                                    !.runs = race.proc[p].runs + 1,
                                    !.rebuilt = race.proc[p].rebuilt])
  /\ UNCHANGED <<fs, image, edits, cycleVars, probe, cli>>

\* should_rebuild_image: calculate_repo_hash, then the force test
RaceFingerprint(p) ==
  /\ race.proc[p].pc = "fingerprint"
  /\ \E l \in Listings(fs) :
       LET r == calculate_repo_hash(fs, l)
           me == race.proc[p]
           verdict == should_rebuild_image(TRUE, r.val, None)
       IN  IF ~r.ok
           THEN ProcStep(p, [me EXCEPT !.pc = "Raised", !.exc = r.exc])
           ELSE IF me.force_build
           THEN ProcStep(p, [me EXCEPT !.pc = "decided", !.current_hash = r.val,
                                       !.should_rebuild = verdict[1],
                                       !.content_hash = verdict[2]])
           ELSE ProcStep(p, [me EXCEPT !.pc = "inspect", !.current_hash = r.val])
  /\ UNCHANGED <<fs, image, edits, cycleVars, probe, cli>>

\* should_rebuild_image: get_image_hash_label and the comparison
RaceInspect(p) ==
  /\ race.proc[p].pc = "inspect"
  /\ \E run \in InspectRuns(image) :
       LET r == get_image_hash_label(run)
           me == [race.proc[p] EXCEPT !.seen = image, !.after = race.built]
           verdict == should_rebuild_image(me.force_build, me.current_hash, r.val)
       IN  IF r.ok
           THEN ProcStep(p, [me EXCEPT !.pc = "decided", !.should_rebuild = verdict[1],
                                       !.content_hash = verdict[2]])
           ELSE ProcStep(p, [me EXCEPT !.pc = "Raised", !.exc = r.exc])
  /\ UNCHANGED <<fs, image, edits, cycleVars, probe, cli>>

\* _build_docker_image: `if not should_rebuild: return True`
RaceHit(p) ==
  /\ race.proc[p].pc = "decided"
  /\ ~race.proc[p].should_rebuild
  /\ ProcStep(p, [race.proc[p] EXCEPT !.pc = "Done", !.ret = "True"])
  /\ UNCHANGED <<fs, image, edits, cycleVars, probe, cli>>

\* _build_docker_image: `return docker_cache.build_docker_image(...)`
RaceBuild(p) ==
  /\ race.proc[p].pc = "decided"
  /\ race.proc[p].should_rebuild
  /\ \E run \in BuildRuns : \E v \in BOOLEAN :
       LET r == build_docker_image(run, v)
           me == [race.proc[p] EXCEPT !.builds = 1,
                                      !.rebuilt = @ \/ ~race.proc[p].force_build]
       IN  /\ image' = Built(image, run, me.content_hash)
           /\ race' = [proc |-> [race.proc EXCEPT ![p] =
                                   IF r.ok
                                   THEN [me EXCEPT !.pc = "Done",
                                                   !.ret = IF r.val THEN "True" ELSE "False"]
                                   ELSE [me EXCEPT !.pc = "Raised", !.exc = r.exc]],
                       built |-> race.built \/ (run.found /\ run.returncode = 0)]
  /\ UNCHANGED <<fs, edits, cycleVars, probe, cli>>

NextRace ==
  \/ \E p \in Procs : RaceStart(p)
  \/ \E p \in Procs : RaceFingerprint(p)
  \/ \E p \in Procs : RaceInspect(p)
  \/ \E p \in Procs : RaceHit(p)
  \/ \E p \in Procs : RaceBuild(p)

SpecRace == InitRace /\ [][NextRace]_vars

-----------------------------------------------------------------------------
(* SpecRun: one invocation of Resolver.run (resolve.py) or SuggestIssues.run *)
(* (suggest_issues.py): the Docker check, the auth configuration, the image  *)
(* step, the token, the container.                                           *)

\* a value that is set: 'x'
SET_VALUE == <<120>>

\* what config.get(key) yields: '' (unset everywhere) or a value
ConfigValues == {<<>>, SET_VALUE}

Configs ==
  [GITHUB_TOKEN : ConfigValues, GITHUB_CLIENT_ID : ConfigValues,
   GITHUB_PRIVATE_KEY : ConfigValues]

\* how `docker info` ended
DockerInfoRuns == [found : BOOLEAN, returncode : {0, 1}]

\* exit statuses of the container
ContainerCodes == {0, 1, 2}

\* what get_auth_token returns: None, or the token of the response
TokenResults == {None, Some(<<>>), Some(<<116>>)}

\* bool() of a str
bool(v) == v # <<>>

\* bool() of an Optional[str]
Truthy(opt) == opt.some /\ opt.str # <<>>

KeyError(key) == [type |-> "KeyError", msg |-> key, path |-> <<>>]

\* the check passing whatever `docker info` did
_check_docker_always(r) == TRUE

\* subprocess.run(['docker', 'info'], check=True) without an exception
_check_docker(r) == r.found /\ r.returncode = 0

token_auth_set(config) == bool(config.GITHUB_TOKEN)

app_auth_set(config) ==
  bool(config.GITHUB_CLIENT_ID) /\ bool(config.GITHUB_PRIVATE_KEY)

\* Resolver._build_docker_image as one call: what it returns or raises, what
\* it leaves in the image store, and the tool invocations it made
Resolver_build_docker_image(f, rglob, img, force, verbose_flag, irun, brun) ==
  LET h == calculate_repo_hash(f, rglob)
      lab == get_image_hash_label(irun)
      verdict == should_rebuild_image(force, h.val, IF force THEN None ELSE lab.val)
  IN  IF ~h.ok
      THEN [out |-> h, image |-> img, fingerprints |-> 1, inspects |-> 0, builds |-> 0]
      ELSE IF ~force /\ ~lab.ok
      THEN [out |-> lab, image |-> img, fingerprints |-> 1, inspects |-> 1, builds |-> 0]
      ELSE IF ~verdict[1]
      THEN [out |-> Return(TRUE), image |-> img, fingerprints |-> 1, inspects |-> 1,
            builds |-> 0]
      ELSE [out |-> build_docker_image(brun, verbose_flag),
            image |-> Built(img, brun, verdict[2]),
            fingerprints |-> 1, inspects |-> IF force THEN 0 ELSE 1, builds |-> 1]

\* SuggestIssues._build_docker_image: a plain `docker build -t <image>`, with
\* no label and no cache; FileNotFoundError is not caught
Suggest_build_docker_image(img, brun) ==
  [out |-> IF brun.found THEN Return(brun.returncode = 0)
           ELSE Raise([type |-> "FileNotFoundError", msg |-> "docker", path |-> <<>>]),
   image |-> Built(img, brun, <<>>),
   fingerprints |-> 0, inspects |-> 0, builds |-> 1]

RunEntered(tool, config, force, verbose_flag) ==
  [pc |-> "docker", tool |-> tool, config |-> config, force_build |-> force,
   verbose |-> verbose_flag, docker |-> [found |-> TRUE, returncode |-> 0],
   steps |-> <<>>, image_ok |-> "none", fingerprints |-> 0, inspects |-> 0,
   builds |-> 0, env_token |-> None, launched |-> 0, container |-> 0,
   ret |-> 0, exc |-> NoExc, log |-> ""]

InitRun ==
  /\ fs \in {f \in InitialFS : DOMAIN f.file = {DOCKERFILE, ORCHESTRATOR_SH}}
  /\ \E l \in Listings(fs) :
       image \in {NoImage, [present |-> TRUE, label |-> STALE_LABEL],
                  [present |-> TRUE, label |-> calculate_repo_hash(fs, l).val]}
  /\ edits = 0
  /\ CycleIdle
  /\ race = RaceIdle
  /\ probe = NoProbe
  /\ cli \in {RunEntered(t, c, force, v) :
                t \in {"resolve", "suggest"}, c \in Configs,
                force \in BOOLEAN, v \in BOOLEAN}

\* run returns status with the error it logged
Returns(rec, status, msg) ==
  cli' = [rec EXCEPT !.pc = "Returned", !.ret = status, !.log = msg]

\* `if not self._check_docker(): ... return 1`
RunCheckDocker ==
  /\ cli.pc = "docker"
  /\ \E r \in DockerInfoRuns :
       LET me == [cli EXCEPT !.docker = r, !.steps = Append(@, "docker")]
       IN  IF _check_docker(r)
           THEN cli' = [me EXCEPT !.pc = "auth"]
           ELSE Returns(me, 1, "Error: Docker is not available")
  /\ UNCHANGED <<fs, image, edits, cycleVars, probe, race>>

\* `if not (token_auth_set or app_auth_set): ... return 1`
RunCheckAuth ==
  /\ cli.pc = "auth"
  /\ LET me == [cli EXCEPT !.steps = Append(@, "auth")]
     IN  IF token_auth_set(cli.config) \/ app_auth_set(cli.config)
         THEN cli' = [me EXCEPT !.pc = "image"]
         ELSE Returns(me, 1, "Error: Either GITHUB_TOKEN or all of GITHUB_CLIENT_ID, and GITHUB_PRIVATE_KEY must be set in config.env")
  /\ UNCHANGED <<fs, image, edits, cycleVars, probe, race>>

\* `if not self._build_docker_image(): ... return 1`
RunBuildImage ==
  /\ cli.pc = "image"
  /\ \E l \in Listings(fs) : \E irun \in InspectRuns(image) : \E brun \in BuildRuns :
       LET r == IF cli.tool = "resolve"
                THEN Resolver_build_docker_image(fs, l, image, cli.force_build,
                                                 cli.verbose, irun, brun)
                ELSE Suggest_build_docker_image(image, brun)
           me == [cli EXCEPT !.steps = Append(@, "image"),
                             !.fingerprints = r.fingerprints,
                             !.inspects = r.inspects, !.builds = r.builds]
       IN  /\ image' = r.image
           /\ IF ~r.out.ok
              THEN cli' = [me EXCEPT !.pc = "Raised", !.exc = r.out.exc]
              ELSE IF r.out.val
              THEN cli' = [me EXCEPT !.pc = "token", !.image_ok = "True"]
              ELSE Returns([me EXCEPT !.image_ok = "False"], 1,
                           "Error: Failed to build Docker image")
  /\ UNCHANGED <<fs, edits, cycleVars, probe, race>>

\* env_vars = self._build_env_vars(), which holds no 'GITHUB_TOKEN'; the
\* token of get_auth_token when app auth is set; the test of
\* env_vars.get('GITHUB_TOKEN') (resolve.py) or env_vars['GITHUB_TOKEN']
\* (suggest_issues.py)
RunToken ==
  /\ cli.pc = "token"
  /\ \E token \in TokenResults :
       LET me == [cli EXCEPT !.steps = Append(@, "token")]
           failed == "Error: Failed to obtain GitHub authentication token"
       IN  IF cli.tool = "resolve"
           THEN IF app_auth_set(cli.config)
                THEN IF ~Truthy(token)
                     THEN Returns(me, 1, failed)
                     ELSE cli' = [me EXCEPT !.pc = "launch", !.env_token = token]
                ELSE Returns(me, 1, failed)
           ELSE IF app_auth_set(cli.config)
                THEN IF ~Truthy(token)
                     THEN Returns([me EXCEPT !.env_token = token], 1, failed)
                     ELSE cli' = [me EXCEPT !.pc = "launch", !.env_token = token]
                ELSE cli' = [me EXCEPT !.pc = "Raised", !.exc = KeyError("GITHUB_TOKEN")]
  /\ UNCHANGED <<fs, image, edits, cycleVars, probe, race>>

\* result = subprocess.run(cmd); return result.returncode
RunLaunch ==
  /\ cli.pc = "launch"
  /\ \E code \in ContainerCodes :
       Returns([cli EXCEPT !.steps = Append(@, "launch"), !.launched = @ + 1,
                           !.container = code], code, "")
  /\ UNCHANGED <<fs, image, edits, cycleVars, probe, race>>

NextRun ==
  \/ RunCheckDocker
  \/ RunCheckAuth
  \/ RunBuildImage
  \/ RunToken
  \/ RunLaunch

SpecRun == InitRun /\ [][NextRun]_vars

-----------------------------------------------------------------------------
(* SpecExpand: Config._load reading config.env line by line, with            *)
(* Config._expand_vars applied to each value (resolve.py; the same code is   *)
(* in suggest_issues.py and review_report.py).  self.values and os.environ   *)
(* are functions from names to text.                                         *)

\* lines of the config file
MaxLines == 2

\* '$', '{', '}', '=', '#', '"', "'"
DOLLAR == 36

LBRACE == 123

RBRACE == 125

EQUALS == 61

HASH == 35

DQUOTE == 34

SQUOTE == 39

\* 'A', 'B'
NAME_A == <<65>>

NAME_B == <<66>>

\* str.strip(c) for one character c
strip_char(s, c) ==
  LET keep == {i \in 1..Len(s) : s[i] # c}
  IN  IF keep = {} THEN <<>>
      ELSE SubSeq(s, CHOOSE i \in keep : \A j \in keep : i <= j,
                     CHOOSE i \in keep : \A j \in keep : j <= i)

\* replace(match): self.values.get(var_name, os.environ.get(var_name, ''))
replace(var_name, values, environ) ==
  IF var_name \in DOMAIN values THEN values[var_name]
  ELSE IF var_name \in DOMAIN environ THEN environ[var_name]
  ELSE <<>>

\* re.sub(r'\$\{([^}]+)\}', replace, value) from position i on: at i the
\* pattern matches when '${' stands there, a '}' follows, and at least one
\* character lies between them; the name runs up to the first '}'
RECURSIVE sub_from(_, _, _, _)
sub_from(value, i, values, environ) ==
  IF i > Len(value) THEN <<>>
  ELSE LET closing == {k \in (i + 2)..Len(value) : value[k] = RBRACE}
           j == CHOOSE k \in closing : \A m \in closing : k <= m
       IN  IF /\ value[i] = DOLLAR
              /\ i + 1 <= Len(value)
              /\ value[i + 1] = LBRACE
              /\ closing # {}
              /\ j >= i + 3
           THEN replace(SubSeq(value, i + 2, j - 1), values, environ)
                  \o sub_from(value, j + 1, values, environ)
           ELSE <<value[i]>> \o sub_from(value, i + 1, values, environ)

\* the substitution repeated on its own result
_expand_vars_again(value, values, environ) ==
  sub_from(sub_from(value, 1, values, environ), 1, values, environ)

_expand_vars(value, values, environ) == sub_from(value, 1, values, environ)

\* key, _, value = line.partition('='), for a line that contains '='
partition(line) ==
  LET at == CHOOSE i \in 1..Len(line) :
              line[i] = EQUALS /\ \A j \in 1..(i - 1) : line[j] # EQUALS
  IN  [key |-> SubSeq(line, 1, at - 1), value |-> SubSeq(line, at + 1, Len(line))]

\* one turn of _load's loop: self.values after the line
load_line(raw, values, environ) ==
  LET line == strip(raw)
  IN  IF line = <<>> \/ line[1] = HASH THEN values
      ELSE IF \A i \in 1..Len(line) : line[i] # EQUALS THEN values
      ELSE LET kv == partition(line)
               key == strip(kv.key)
               value == strip_char(strip_char(strip(kv.value), DQUOTE), SQUOTE)
               expanded == _expand_vars(value, values, environ)
           IN  [k \in DOMAIN values \cup {key} |->
                  IF k = key THEN expanded ELSE values[k]]

\* the value _load hands to _expand_vars for a line, or "none" for a line it
\* skips
line_value(raw) ==
  LET line == strip(raw)
  IN  IF line = <<>> \/ line[1] = HASH \/ \A i \in 1..Len(line) : line[i] # EQUALS
      THEN [set |-> FALSE, key |-> <<>>, value |-> <<>>]
      ELSE [set |-> TRUE, key |-> strip(partition(line).key),
            value |-> strip_char(strip_char(strip(partition(line).value), DQUOTE), SQUOTE)]

\* values written in the file: '', 'x', '${A}', '${B}', 'a${A}${B}', '${}',
\* '${A', '$${B}', '${${A}}'
FileValues ==
  {<<>>, <<120>>,
   <<DOLLAR, LBRACE, 65, RBRACE>>,
   <<DOLLAR, LBRACE, 66, RBRACE>>,
   <<97, DOLLAR, LBRACE, 65, RBRACE, DOLLAR, LBRACE, 66, RBRACE>>,
   <<DOLLAR, LBRACE, RBRACE>>,
   <<DOLLAR, LBRACE, 65>>,
   <<DOLLAR, DOLLAR, LBRACE, 66, RBRACE>>,
   <<DOLLAR, LBRACE, DOLLAR, LBRACE, 65, RBRACE, RBRACE>>}

\* KEY=VALUE lines, a quoted and padded one, a comment, a line without '='
FileLines ==
  {k \o <<EQUALS>> \o v : k \in {NAME_A, NAME_B}, v \in FileValues}
    \cup {<<32>> \o NAME_A \o <<32, EQUALS, 32, DQUOTE>>
            \o <<DOLLAR, LBRACE, 66, RBRACE>> \o <<DQUOTE, 32>>,
          <<HASH>> \o NAME_B \o <<EQUALS, 120>>,
          NAME_B}

ConfigFiles == UNION {[1..n -> FileLines] : n \in 1..MaxLines}

\* os.environ: A unset or 'y', B unset or '${A}'
Environs ==
  {[n \in N |-> IF n = NAME_A THEN <<121>> ELSE <<DOLLAR, LBRACE, 65, RBRACE>>] :
     N \in SUBSET {NAME_A, NAME_B}}

InitExpand ==
  /\ fs \in {f \in InitialFS : DOMAIN f.file = {DOCKERFILE, ORCHESTRATOR_SH}}
  /\ image = NoImage
  /\ edits = 0
  /\ CycleIdle
  /\ race = RaceIdle
  /\ cli = RunIdle
  /\ \E file \in ConfigFiles : \E environ \in Environs :
       probe = [op |-> "load", lines |-> file, next |-> 1, values |-> <<>>,
                environ |-> environ, before |-> <<>>]

\* _load: the next line of the file
LoadLine ==
  /\ probe.op = "load"
  /\ probe.next <= Len(probe.lines)
  /\ probe' = [probe EXCEPT
                 !.values = load_line(probe.lines[probe.next], probe.values, probe.environ),
                 !.before = probe.values,
                 !.next = @ + 1]
  /\ UNCHANGED <<fs, image, edits, cycleVars, race, cli>>

NextExpand == LoadLine

SpecExpand == InitExpand /\ [][NextExpand]_vars

-----------------------------------------------------------------------------
(* Properties of Spec *)

\* should_rebuild_image has returned to _build_docker_image
Decided == pc = "decided"

CycleHit == <<"Idle", "Fingerprinting", "CacheHit", "Idle(success)">>

CycleBuilt == <<"Idle", "Fingerprinting", "CacheMiss", "Building", "Idle(success)">>

CycleBuildFailed == <<"Idle", "Fingerprinting", "CacheMiss", "Building", "Idle(failure)">>

\* C3: a cycle that returns went Idle, Fingerprinting, CacheHit, Idle(success)
\* or Idle, Fingerprinting, CacheMiss, Building, Idle(success | failure); the
\* build command is invoked zero times on a cache hit and at most once on a
\* cache miss, never before the fingerprint exists, and never again after a
\* failed build.  (A fatal error leaves the cycle from the phase it is in.)
C3_CycleStateMachine ==
  /\ pc = "Done" =>
       /\ trace \in {CycleHit, CycleBuilt, CycleBuildFailed}
       /\ trace = CycleHit <=> ~should_rebuild
       /\ ret = "True" <=> trace \in {CycleHit, CycleBuilt}
       /\ ret = "False" <=> trace = CycleBuildFailed
       /\ builds = (IF trace = CycleHit THEN 0 ELSE 1)
  /\ builds <= 1
  /\ builds = 1 =>
       /\ should_rebuild
       /\ pc \in {"Done", "Raised"}
       /\ content_hash = hexdigest(hasher)
       /\ idx = Len(files) + 1
  /\ pc \in {"collect", "hash", "inspect", "decided"} =>
       builds = 0 /\ ret = "none" /\ trace = <<"Idle", "Fingerprinting">>
  /\ pc = "Raised" =>
       /\ ret = "none"
       /\ trace \in {<<"Idle", "Fingerprinting", "Fatal">>,
                     <<"Idle", "Fingerprinting", "CacheMiss", "Building", "Fatal">>}

C3_Witness ==
  /\ pc = "Done"
  /\ trace = CycleBuildFailed
  /\ builds = 1
  /\ ret = "False"

ToolUnavailable(e) == e \in {DockerNotFound, DaemonUnreachable}

\* C4: when the label query of a non-forced decide call finds the daemon
\* unreachable or the binary missing, the cycle ends with ToolUnavailable:
\* no verdict is returned, no build is invoked, the query is not repeated.
C4_ToolUnavailablePropagates ==
  /\ inspects <= 1
  /\ inspects = 1 => ~force_build
  /\ (inspects = 1
        /\ (~inspected.found \/ Contains(inspected.stderr, DAEMON_MARKER))) =>
       /\ pc = "Raised"
       /\ ToolUnavailable(exc)
       /\ builds = 0
       /\ ret = "none"
       /\ content_hash = <<>>
       /\ trace = <<"Idle", "Fingerprinting", "Fatal">>

C4_Witness ==
  /\ inspects = 1
  /\ inspected.found
  /\ Contains(inspected.stderr, DAEMON_MARKER)
  /\ exc = DaemonUnreachable
  /\ pc = "Raised"
  /\ seen.present

MissingInput(e) == e.type = "FileNotFoundError" /\ e.msg = "Missing hash input"

Required == {_HASH_TARGETS[i] : i \in 1..Len(_HASH_TARGETS)} \ {AUTH_JSON}

\* C10: if a required InputSet entry (any but 'auth.json') does not exist,
\* _collect_files raises MissingInput naming a missing required entry, before
\* any file is read or fed to the digest and before any build-tool invocation;
\* no fingerprint and no verdict is produced.
C10_MissingInputFirst ==
  /\ MissingInput(exc) =>
       /\ pc = "Raised"
       /\ exc.path \in Required
       /\ edits = start_edits => ~exists(fs, exc.path)
       /\ reads = 0
       /\ hasher = <<>>
       /\ files = <<>>
       /\ inspects = 0
       /\ builds = 0
       /\ current_hash = <<>>
       /\ content_hash = <<>>
       /\ ret = "none"
       /\ trace = <<"Idle", "Fingerprinting", "Fatal">>
  /\ (pc \in {"hash", "inspect", "decided", "Done"} /\ edits = start_edits) =>
       \A t \in Required : exists(fs, t)
  /\ (pc = "Raised" /\ ~MissingInput(exc) /\ edits = start_edits /\ reads = 0) =>
       \A t \in Required : exists(fs, t)

C10_Witness ==
  /\ MissingInput(exc)
  /\ pc = "Raised"
  /\ exc.path = OPENCODE
  /\ cycles = 2
  /\ image.present

IOFailure(e) == e.msg \in {"No such file or directory", "Permission denied"}

\* C12: every should_rebuild_image call, forced or not, computes the
\* fingerprint first: if fingerprinting fails with MissingInput or with an
\* IOFailure (a file unreadable, or gone between listing and reading) the call
\* is abandoned with no verdict and no fingerprint, partial or whole, and
\* neither the label query nor a build has been invoked; and whenever the
\* label query or a build is invoked the fingerprint of every listed file has
\* been computed.
C12_FingerprintFirst ==
  /\ (pc = "Raised" /\ (MissingInput(exc) \/ IOFailure(exc))) =>
       /\ ret = "none"
       /\ current_hash = <<>>
       /\ content_hash = <<>>
       /\ ~should_rebuild
       /\ existing_hash = None
       /\ inspects = 0
       /\ builds = 0
       /\ trace = <<"Idle", "Fingerprinting", "Fatal">>
  /\ IOFailure(exc) =>
       /\ pc = "Raised"
       /\ idx \in 1..Len(files)
       /\ exc.path = files[idx]
       /\ reads = idx
  /\ (inspects > 0 \/ builds > 0 \/ pc \in {"inspect", "decided", "Done"}) =>
       /\ idx = Len(files) + 1
       /\ reads = Len(files)
       /\ current_hash = hexdigest(hasher)
       /\ ~MissingInput(exc) /\ ~IOFailure(exc)

C12_Witness ==
  /\ pc = "Raised"
  /\ force_build
  /\ exc = OpenFailed(DOCKERFILE)
  /\ files[1] = DOCKERFILE
  /\ edits = start_edits + 1
  /\ image.present

\* C14: the image's label is absent until the first successful build and
\* changes only through a successful build, which sets it to the fingerprint
\* the decide call of that same cycle computed; should_rebuild_image, cache
\* hits and failed builds leave it unchanged.
C14_LabelFrame ==
  [][/\ ~stamp'.built => image' = NoImage
     /\ image' # image =>
          /\ pc = "decided" /\ should_rebuild
          /\ pc' = "Done" /\ ret' = "True" /\ builds' = 1
          /\ image' = [present |-> TRUE, label |-> content_hash]
          /\ content_hash = current_hash
          /\ current_hash = hexdigest(hasher)
     /\ pc \in {"collect", "hash", "inspect"} => image' = image
     /\ (pc = "decided" /\ ~should_rebuild) => image' = image
     /\ (pc = "decided" /\ pc' \in {"Done", "Raised"} /\ ret' # "True") => image' = image
     /\ (pc = "decided" /\ pc' = "Done" /\ ret' = "True" /\ should_rebuild) =>
          image' = [present |-> TRUE, label |-> content_hash]
    ]_vars

\* a second cycle saw the label of the first build and has overwritten it
C14_Witness ==
  /\ cycles = 2
  /\ pc = "Done"
  /\ ~force_build
  /\ builds = 1
  /\ ret = "True"
  /\ seen.present
  /\ seen.label # content_hash
  /\ image = [present |-> TRUE, label |-> content_hash]

\* C18 as stated: the label of a successfully built image is the fingerprint
\* of the tracked files as the build consumed them, also when a tracked file
\* is modified between the fingerprint computation and the build; so a cache
\* hit accepts only an image built from the current contents.
C18_LabelMatchesBuild ==
  /\ stamp.built =>
       \A l \in Listings(stamp.consumed) :
         calculate_repo_hash(stamp.consumed, l) = Return(stamp.label)
  /\ (pc = "Done" /\ trace = CycleHit /\ stamp.built /\ edits = start_edits) =>
       stamp.consumed.file = fs.file

-----------------------------------------------------------------------------
(* Properties of SpecTool *)

Unavailable(run) == ~run.found \/ Contains(run.stderr, DAEMON_MARKER)

NoneRecorded(run) ==
  \/ run.returncode # 0
  \/ strip(run.stdout) = <<>>
  \/ strip(run.stdout) \in {NO_VALUE, NULL_TEXT}

InspectClassified ==
  probe.op = "inspect" =>
    IF Unavailable(probe.run)
    THEN ~probe.out.ok /\ ToolUnavailable(probe.out.exc)
    ELSE IF NoneRecorded(probe.run)
    THEN probe.out = Return(None)
    ELSE probe.out = Return(Some(strip(probe.run.stdout)))

\* the label value docker printed: the output line without its newline
PrintedLabel(run) == SubSeq(run.stdout, 1, Len(run.stdout) - 1)

\* the query reached an artifact that carries a non-empty, non-sentinel label
ArtifactWithLabel(run) ==
  /\ ~Unavailable(run)
  /\ run.returncode = 0
  /\ Len(run.stdout) >= 1
  /\ run.stdout[Len(run.stdout)] = 10
  /\ PrintedLabel(run) # <<>>
  /\ PrintedLabel(run) \notin {NO_VALUE, NULL_TEXT}

C6_BuildOutcomes ==
  probe.op = "build" =>
    IF Unavailable(probe.run)
    THEN ~probe.out.ok /\ ToolUnavailable(probe.out.exc)
    ELSE probe.out = Return(probe.run.returncode = 0)

C6_Witness ==
  /\ probe.op = "build"
  /\ probe.verbose
  /\ probe.run.found
  /\ probe.run.returncode # 0
  /\ probe.run.stderr # <<>>
  /\ ~Contains(probe.run.stderr, DAEMON_MARKER)
  /\ probe.out = Return(FALSE)

-----------------------------------------------------------------------------
(* Properties of SpecHash *)

\* C7: changing one byte of a tracked file, renaming a tracked file, adding a
\* file under a tracked directory or removing a tracked file changes what
\* calculate_repo_hash feeds to the digest (path, NUL, content, NUL per file in
\* sorted order), hence the fingerprint under a collision-free digest.
C7_Sensitivity ==
  (probe.op \in {"first", "second"} /\ probe.change # "none") =>
     probe.first # probe.before

C7_Witness ==
  /\ probe.op = "first"
  /\ probe.change = "rename"
  /\ probe.first.ok
  /\ probe.before.ok
  /\ \E p \in DOMAIN fs.file : fs.file[p] \in Confusable

\* C8: two calls of calculate_repo_hash on unchanged files yield identical
\* strings, in whatever orders the filesystem reports directory entries.
C8_OrderIndependent ==
  probe.op = "second" => probe.second = probe.first

C8_Witness ==
  /\ probe.op = "second"
  /\ probe.second.ok
  /\ \E d \in fs.dir : Cardinality(Entries(fs, d)) >= 3

\* the files the InputSet covers: its entries that are files and every file
\* below its entries that are directories
Tracked(f) ==
  {p \in DOMAIN f.file :
     \E i \in 1..Len(_HASH_TARGETS) : p = _HASH_TARGETS[i] \/ IsUnder(p, _HASH_TARGETS[i])}

RECURSIVE StreamOf(_, _)
StreamOf(f, S) ==
  IF S = {} THEN <<>>
  ELSE LET p == CHOOSE q \in S : \A r \in S \ {q} : StrLess(q, r)
       IN  p \o <<NUL>> \o f.file[p] \o <<NUL>> \o StreamOf(f, S \ {p})

\* C11: while the optional 'auth.json' is absent (the required entries being
\* there), fingerprinting succeeds without MissingInput and the fingerprint is
\* the one of the other tracked files alone; once 'auth.json' is created, with
\* any content, the fingerprint differs from the one taken while it was absent.
C11_OptionalAuth ==
  /\ (probe.op \in {"first", "second"} /\ AUTH_JSON \notin DOMAIN fs.file
        /\ \A t \in Required : exists(fs, t)) =>
       /\ probe.collected.ok
       /\ \A i \in 1..Len(probe.collected.val) : probe.collected.val[i] # AUTH_JSON
       /\ probe.first = Return(hexdigest(StreamOf(fs, Tracked(fs) \ {AUTH_JSON})))
  /\ (probe.op \in {"first", "second"} /\ probe.change = "auth") =>
       /\ probe.before.ok
       /\ probe.first.ok
       /\ probe.first # probe.before
       /\ probe.before =
            Return(hexdigest(StreamOf(fs, Tracked(fs) \ {AUTH_JSON})))

C11_Witness ==
  /\ probe.op = "first"
  /\ probe.change = "auth"
  /\ fs.file[AUTH_JSON] = <<>>
  /\ probe.first.ok
  /\ probe.before.ok
  /\ Cardinality(DOMAIN fs.file) = 4

-----------------------------------------------------------------------------
(* Properties of SpecRace *)

-----------------------------------------------------------------------------
(* Properties of SpecRun *)

\* the order of run's steps
RunOrder == <<"docker", "auth", "image", "token", "launch">>

StepsDone(n) == cli.steps = SubSeq(RunOrder, 1, n)

\* `docker info` was started and exited with status 0
DockerAvailable == cli.docker.found /\ cli.docker.returncode = 0

\* C15: Resolver.run launches the container only if, in this order, the
\* Docker check passed, an auth configuration is present and the decide+build
\* cycle reported success; when the Docker check fails it returns 1 without
\* fingerprinting or building; when the build reports an ordinary failure it
\* returns 1 without launching the container and without another build.
C15_RunOrder ==
  cli.tool = "resolve" =>
    /\ \E n \in 0..Len(RunOrder) : StepsDone(n)
    /\ cli.launched <= 1
    /\ cli.builds <= 1
    /\ cli.launched = 1 =>
         /\ StepsDone(5)
         /\ DockerAvailable
         /\ token_auth_set(cli.config) \/ app_auth_set(cli.config)
         /\ cli.image_ok = "True"
         /\ cli.pc = "Returned"
         /\ cli.ret = cli.container
    /\ (Len(cli.steps) >= 1 /\ ~DockerAvailable) =>
         /\ StepsDone(1)
         /\ cli.pc = "Returned"
         /\ cli.ret = 1
         /\ cli.fingerprints = 0
         /\ cli.inspects = 0
         /\ cli.builds = 0
         /\ cli.launched = 0
    /\ cli.image_ok = "False" =>
         /\ StepsDone(3)
         /\ cli.pc = "Returned"
         /\ cli.ret = 1
         /\ cli.builds = 1
         /\ cli.launched = 0

C15_Witness ==
  /\ cli.tool = "resolve"
  /\ cli.pc = "Returned"
  /\ cli.image_ok = "False"
  /\ cli.builds = 1
  /\ cli.ret = 1
  /\ cli.launched = 0
  /\ cli.log = "Error: Failed to build Docker image"

\* C17 as stated: in Resolver.run and SuggestIssues.run, when Docker is
\* available, the image step succeeded and the configuration sets a non-empty
\* GITHUB_TOKEN but not both GITHUB_CLIENT_ID and GITHUB_PRIVATE_KEY, the run
\* reaches the container launch and returns the container's exit status.
C17_TokenAuthSuffices ==
  (/\ cli.pc \in {"Returned", "Raised"}
   /\ DockerAvailable
   /\ cli.image_ok = "True"
   /\ token_auth_set(cli.config)
   /\ ~app_auth_set(cli.config)) =>
    /\ cli.pc = "Returned"
    /\ cli.launched = 1
    /\ cli.ret = cli.container

-----------------------------------------------------------------------------
(* Properties of SpecExpand *)

\* the line _load has just processed, as key and value
LastLine == line_value(probe.lines[probe.next - 1])

\* the keys set by the lines before it
EarlierKeys ==
  {line_value(probe.lines[i]).key :
     i \in {k \in 1..(probe.next - 2) : line_value(probe.lines[k]).set}}

\* '${' at i, the first '}' after it at j, and a name between them
TokenAt(v, i, j) ==
  /\ i + 3 <= j
  /\ j <= Len(v)
  /\ v[i] = DOLLAR
  /\ v[i + 1] = LBRACE
  /\ v[j] = RBRACE
  /\ \A k \in (i + 2)..(j - 1) : v[k] # RBRACE

\* the local map's value if the name is present, else the environment's,
\* else the empty string
Lookup(name, local, environ) ==
  IF name \in DOMAIN local THEN local[name]
  ELSE IF name \in DOMAIN environ THEN environ[name]
  ELSE <<>>

\* C16: for every value, every map of keys loaded from earlier lines and
\* every environment, _expand_vars replaces each ${NAME} token by the local
\* map's value for NAME if present, else the environment's, else '', in one
\* pass from left to right: the text a replacement produced is not expanded
\* again, and only keys of earlier lines are in the local map.
C16_ExpandVars ==
  (probe.op = "load" /\ probe.next > 1 /\ LastLine.set) =>
    LET v == LastLine.value
        out == probe.values[LastLine.key]
        local == probe.before
    IN  /\ DOMAIN local = EarlierKeys
        /\ DOMAIN probe.values = EarlierKeys \cup {LastLine.key}
        /\ \A k \in DOMAIN local \ {LastLine.key} : probe.values[k] = local[k]
        /\ (\A i, j \in 1..Len(v) : ~TokenAt(v, i, j)) => out = v
        /\ \A i, j \in 1..Len(v) :
             (TokenAt(v, i, j) /\ \A a, b \in 1..Len(v) : TokenAt(v, a, b) => i <= a) =>
               out = SubSeq(v, 1, i - 1)
                       \o Lookup(SubSeq(v, i + 2, j - 1), local, probe.environ)
                       \o _expand_vars(SubSeq(v, j + 1, Len(v)), local, probe.environ)

\* A=${B} then B=x, with B='${A}' and A='y' in the environment: A is '${A}'
C16_Witness ==
  /\ probe.op = "load"
  /\ probe.next = 3
  /\ probe.lines = <<NAME_A \o <<EQUALS, DOLLAR, LBRACE, 66, RBRACE>>,
                     NAME_B \o <<EQUALS, 120>>>>
  /\ DOMAIN probe.environ = {NAME_A, NAME_B}
  /\ probe.values[NAME_A] = <<DOLLAR, LBRACE, 65, RBRACE>>
  /\ probe.values[NAME_B] = <<120>>

====
